---------------------------- MODULE Spec2Model ----------------------------
(***************************************************************************)
(* Court-Data Fetcher: the case-lookup-and-log pipeline of the repository. *)
(* The repository holds several variants of one server; each is a          *)
(* deployment of this state machine, chosen in Init:                       *)
(*   "server"     src/server.js            exact-key lookup, in-memory log *)
(*   "sqlite"     src/unnamed/part_001     exact-key lookup, SQLite log    *)
(*   "category"   src/unnamed/part_003     category lookup (random pick)   *)
(*   "captcha"    src/unnamed/part_003     the CAPTCHA slot of that server *)
(*   "search"     src/unnamed/part_000     live fetch over HTTP + CAPTCHA  *)
(*   "playwright" src/index.js (1-239)     live fetch in a browser         *)
(*   "mockHtml"   src/index.js (241-409)   mock page read in a browser     *)
(*   "mockHtmlTry" src/unnamed/part_002    the same, inside try/finally    *)
(***************************************************************************)
EXTENDS Integers, Sequences, FiniteSets, TLC

VARIABLES
    variant,    \* which server file is deployed
    tieOrder,   \* order SQLite gives rows of equal ORDER BY key (fixed per build)
    now,        \* the wall clock (ms) as it was last read
    req,        \* per request: position in its handler, body, response
    queryLog,   \* the in-memory array `queryLog` (newest first)
    rows,       \* the SQLite table, in rowid order
    tableColumns, \* the columns of that table, as the database file has it
    dbQueue,    \* statements handed to db.run and not executed yet
    appended,   \* history: entries in the order their write took effect
    storeFailures, \* history: number of inserts the store rejected
    outcomes,   \* history: per query, the values the resolver returned
    lastListed, \* what the last GET /api/log returned, while no write took
                \* effect since; else <<>>
    listValid,  \* lastListed holds such a result
    currentCaptcha, \* the CAPTCHA slot `currentCaptcha` of part_003
    issued,     \* history: per user, the code last handed to that user
    lastGenerated \* history: who asked for the latest CAPTCHA, the code
                \* drawn for it, and whether server start has generated one

captchaVars == <<currentCaptcha, issued, lastGenerated>>

vars == <<variant, tieOrder, tableColumns, now, req, queryLog, rows, dbQueue, appended,
          storeFailures, outcomes, lastListed, listValid, captchaVars>>

---------------------------------------------------------------------------
(* Bounds of the model *)

MaxRequests == 2
MaxClock == 1
\* Math.random() as the CAPTCHA generator reads it, in steps of 1/CodeSteps
CodeSteps == 2

Requests == 1..MaxRequests

Variants ==
    {"server", "sqlite", "category", "search", "playwright",
     "mockHtml", "mockHtmlTry", "captcha"}
TieOrders == {"rowidAsc", "rowidDesc"}

---------------------------------------------------------------------------
(* JavaScript values *)

\* a request field that is absent from the JSON body
undefined == "<undefined>"
\* the object values null and undefined
null == [js |-> "null"]
undefinedObj == [js |-> "undefined"]

\* template-literal conversion `${v}`
TemplateStr(v) == IF v = undefined THEN "undefined" ELSE v

\* !v is false: for a string, neither undefined nor ""
TruthyStr(v) == v # undefined /\ v # ""
\* for an object value, neither null nor undefined
TruthyObj(v) == v # null /\ v # undefinedObj

\* properties every object literal inherits from Object.prototype, with the
\* `length` of the function found there
ObjectPrototype ==
    [constructor |-> 1, hasOwnProperty |-> 1, toString |-> 0, valueOf |-> 0]

---------------------------------------------------------------------------
(* The mock tables *)

OrderRecord(d, desc, link) == [date |-> d, description |-> desc, pdfLink |-> link]

RedPdf == "https://placehold.co/600x400/FF0000/FFFFFF?text=Mock+Order+PDF"
BluePdf == "https://placehold.co/600x400/0000FF/FFFFFF?text=Mock+Order+PDF"

\* rawResponse differs between server.js ("raw") and part_001 ("mock")
RawHtml(v, what) ==
    "<html><body>..." \o (IF v = "server" THEN "raw" ELSE "mock")
        \o " HTML content from a " \o what \o "...</body></html>"

\* the exact-key table of the deployed variant
MOCK_DATA(v) ==
    [k \in {"criminal-123-2023", "civil-456-2024"} |->
        IF k = "criminal-123-2023"
        THEN [caseType |-> "Criminal Case", caseNumber |-> "123",
              filingYear |-> "2023", parties |-> "State of Delhi vs. John Doe",
              filingDate |-> "2023-01-15", nextHearingDate |-> "2025-09-01",
              orders |-> <<OrderRecord("2024-07-28",
                              "Final order on bail application.", RedPdf)>>,
              rawResponse |-> RawHtml(v, "criminal case")]
        ELSE [caseType |-> "Civil Suit", caseNumber |-> "456",
              filingYear |-> "2024", parties |-> "Jane Doe vs. ABC Corp",
              filingDate |-> "2024-03-20", nextHearingDate |-> "2025-10-15",
              orders |-> <<OrderRecord("2024-08-01",
                              "Case listed for final arguments.", BluePdf)>>,
              rawResponse |-> RawHtml(v, "civil suit")]]

MockCase(t, n, y, p, fd, nh, od, desc, pdf) ==
    [caseType |-> t, caseNumber |-> n, filingYear |-> y, parties |-> p,
     filingDate |-> fd, nextHearingDate |-> nh,
     orders |-> <<OrderRecord(od, desc, pdf)>>]

MockPdf(colour, n) ==
    "https://placehold.co/600x400/" \o colour \o "/FFFFFF?text=Mock+PDF+" \o n

\* the category table: five records under each of three categories
MOCK_CASES ==
    [criminal |-> <<
        MockCase("Criminal Case", "101", "2023", "State vs. A", "2023-01-01", "2024-09-01", "2024-08-01", "Order on bail.", MockPdf("FF0000", "1")),
        MockCase("Criminal Case", "102", "2023", "State vs. B", "2023-02-01", "2024-10-01", "2024-08-05", "Next hearing date set.", MockPdf("FF0000", "2")),
        MockCase("Criminal Case", "103", "2024", "State vs. C", "2024-03-01", "2024-11-01", "2024-07-20", "Final order.", MockPdf("FF0000", "3")),
        MockCase("Criminal Case", "104", "2024", "State vs. D", "2024-04-01", "2024-12-01", "2024-08-10", "Interim order on evidence.", MockPdf("FF0000", "4")),
        MockCase("Criminal Case", "105", "2024", "State vs. E", "2024-05-01", "2025-01-01", "2024-08-15", "Arguments heard.", MockPdf("FF0000", "5"))>>,
     civil |-> <<
        MockCase("Civil Suit", "201", "2022", "Plaintiff F vs. Defendant G", "2022-01-01", "2024-09-02", "2024-08-02", "Case review.", MockPdf("0000FF", "6")),
        MockCase("Civil Suit", "202", "2023", "Plaintiff H vs. Defendant I", "2023-02-02", "2024-10-02", "2024-08-06", "Witness deposition.", MockPdf("0000FF", "7")),
        MockCase("Civil Suit", "203", "2023", "Plaintiff J vs. Defendant K", "2023-03-03", "2024-11-02", "2024-07-21", "Mediation ordered.", MockPdf("0000FF", "8")),
        MockCase("Civil Suit", "204", "2024", "Plaintiff L vs. Defendant M", "2024-04-04", "2024-12-02", "2024-08-11", "Interim relief granted.", MockPdf("0000FF", "9")),
        MockCase("Civil Suit", "205", "2024", "Plaintiff N vs. Defendant O", "2024-05-05", "2025-01-02", "2024-08-16", "Case dismissed.", MockPdf("0000FF", "10"))>>,
     writ |-> <<
        MockCase("Writ Petition", "301", "2021", "Petitioner P vs. State", "2021-01-01", "2024-09-03", "2024-08-03", "Notice issued.", MockPdf("008000", "11")),
        MockCase("Writ Petition", "302", "2022", "Petitioner Q vs. Union of India", "2022-02-02", "2024-10-03", "2024-08-07", "Directions for compliance.", MockPdf("008000", "12")),
        MockCase("Writ Petition", "303", "2023", "Petitioner R vs. State", "2023-03-03", "2024-11-03", "2024-07-22", "Interim stay granted.", MockPdf("008000", "13")),
        MockCase("Writ Petition", "304", "2024", "Petitioner S vs. Union of India", "2024-04-04", "2024-12-03", "2024-08-12", "Final arguments heard.", MockPdf("008000", "14")),
        MockCase("Writ Petition", "305", "2024", "Petitioner T vs. State", "2024-05-05", "2025-01-03", "2024-08-17", "Petition dismissed.", MockPdf("008000", "15"))>>]

---------------------------------------------------------------------------
(* Request bodies *)

Body(t, n, y) == [caseType |-> t, caseNumber |-> n, filingYear |-> y]

\* the bodies a client sends: seeded keys, unseeded keys, unknown types, a
\* name Object.prototype defines, and bodies with a field empty or absent
Bodies ==
    { Body("criminal", "123", "2023"),
      Body("civil", "456", "2024"),
      Body("criminal", "101", "2023"),
      Body("unknown", "1", "2023"),
      Body("constructor", "1", "2023"),
      Body("", "1", "2023"),
      Body("criminal", undefined, "2023"),
      Body("writ", "301", "") }

\* the bodies sent to each deployment: those its code tells apart
BodiesFor(v) ==
    IF v = "category" THEN Bodies
    ELSE IF v \in {"server", "sqlite"}
    THEN { Body("criminal", "123", "2023"), Body("civil", "456", "2024"),
           Body("criminal", "101", "2023"), Body("unknown", "1", "2023"),
           Body("", "1", "2023") }
    ELSE IF v = "search"
    THEN { Body("criminal", "123", "2023"), Body("unknown", "1", "2023"),
           Body("", "1", "2023"), Body("criminal", undefined, "2023"),
           Body("writ", "301", "") }
    ELSE { Body("criminal", "123", "2023"), Body("unknown", "1", "2023"),
           Body("criminal", undefined, "2023") }

NoBody == Body(undefined, undefined, undefined)

---------------------------------------------------------------------------
(* Lookup strategy *)

\* an array value, and the function objects found on Object.prototype: both
\* have a length; only an array has indexed elements
Array(items) == [length |-> Len(items), items |-> items]
FunctionObject(n) == [length |-> n, items |-> <<>>]

\* MOCK_DATA[key]: an own property, else a property of Object.prototype,
\* else undefined
GetMockData(v, key) ==
    IF key \in DOMAIN MOCK_DATA(v) THEN MOCK_DATA(v)[key]
    ELSE IF key \in DOMAIN ObjectPrototype
         THEN FunctionObject(ObjectPrototype[key])
         ELSE undefinedObj

\* a lookup that falls back to the first category for a name it does not know
GetMockCasesDefaulting(name) ==
    IF name \in DOMAIN MOCK_CASES THEN Array(MOCK_CASES[name])
    ELSE Array(MOCK_CASES.criminal)

\* MOCK_CASES[caseType], likewise
GetMockCases(name) ==
    IF name \in DOMAIN MOCK_CASES THEN Array(MOCK_CASES[name])
    ELSE IF name \in DOMAIN ObjectPrototype
         THEN FunctionObject(ObjectPrototype[name])
         ELSE undefinedObj

\* a key that leaves the filing year out
KeyWithoutYear(query) ==
    TemplateStr(query.caseType) \o "-" \o TemplateStr(query.caseNumber)

\* `${caseType}-${caseNumber}-${filingYear}`
Key(query) ==
    TemplateStr(query.caseType) \o "-" \o TemplateStr(query.caseNumber)
        \o "-" \o TemplateStr(query.filingYear)

\* x[i] for a 0-based index of an array or function object
ElementAt(x, i) ==
    IF (i + 1) \in DOMAIN x.items THEN x.items[i + 1] ELSE undefinedObj

\* Math.random() in [0, 1), in steps of 1/RandomSteps
RandomSteps == 10
\* Math.floor(Math.random() * n), for every value Math.random() can take
RandomIndexes(n) == { (u * n) \div RandomSteps : u \in 0..(RandomSteps - 1) }

\* an exact-key lookup that, once the key is found, picks among the table's
\* records as the category variant does
ExactScrapeRandomPick(v, query) ==
    LET caseData == GetMockData(v, Key(query))
    IN  IF TruthyObj(caseData)
        THEN { MOCK_DATA(v)[k] : k \in DOMAIN MOCK_DATA(v) }
        ELSE {null}

\* the values scrapeCaseData of the exact-key variants can return
ExactScrape(v, query) ==
    LET caseData == GetMockData(v, Key(query))
    IN  IF TruthyObj(caseData) THEN {caseData} ELSE {null}

\* a category lookup that picks among the records of every category
CategoryScrapeAnyCategory(query) ==
    LET casesForType == GetMockCases(TemplateStr(query.caseType))
    IN  IF TruthyObj(casesForType) /\ casesForType.length > 0
        THEN UNION { { MOCK_CASES[c][i] : i \in 1..Len(MOCK_CASES[c]) } :
                       c \in DOMAIN MOCK_CASES }
        ELSE {null}

\* a category lookup that returns only records carrying the query's case
\* number, and nothing when the category has none
CategoryScrapeMatchingNumber(query) ==
    LET casesForType == GetMockCases(TemplateStr(query.caseType))
        matching == IF TruthyObj(casesForType) /\ casesForType.length > 0
                    THEN { c \in { ElementAt(casesForType, i) :
                                     i \in RandomIndexes(casesForType.length) } :
                             /\ "caseNumber" \in DOMAIN c
                             /\ c.caseNumber = query.caseNumber }
                    ELSE {}
    IN  IF matching # {} THEN matching ELSE {null}

\* the values scrapeCaseData of the category variant can return
CategoryScrape(query) ==
    LET casesForType == GetMockCases(TemplateStr(query.caseType))
    IN  IF TruthyObj(casesForType) /\ casesForType.length > 0
        THEN { ElementAt(casesForType, i) :
                 i \in RandomIndexes(casesForType.length) }
        ELSE {null}

---------------------------------------------------------------------------
(* Serialisation and time *)

\* the order in which JSON.stringify visits the keys it knows
KeyOrder ==
    <<"caseType", "caseNumber", "filingYear", "parties", "filingDate",
      "nextHearingDate", "orders", "rawResponse", "message">>
OrderKeyOrder == <<"date", "description", "pdfLink">>

\* JSON text is kept as its sequence of members <<key, value text>>: a string
\* value as [str |-> s], an array as [arr |-> <<...>>], an object as
\* [obj |-> <<members>>]
\* a serialisation of an order that leaves the link out
StringifyOrderWithoutLink(o) ==
    [obj |-> [i \in 1..2 |->
                <<OrderKeyOrder[i], [str |-> o[OrderKeyOrder[i]]]>>]]

StringifyOrder(o) ==
    [obj |-> [i \in 1..Len(OrderKeyOrder) |->
                <<OrderKeyOrder[i], [str |-> o[OrderKeyOrder[i]]]>>]]

StringifyMember(response, k) ==
    IF k = "orders"
    THEN [arr |-> [i \in 1..Len(response.orders) |->
                     StringifyOrder(response.orders[i])]]
    ELSE [str |-> response[k]]

\* JSON.stringify(response) of a case record or an error descriptor; a
\* member whose value is undefined is left out
JSONstringify(response) ==
    LET present == SelectSeq(KeyOrder, LAMBDA k :
                       /\ k \in DOMAIN response
                       /\ (k # "orders" => response[k] # undefined))
    IN  [obj |-> [i \in 1..Len(present) |->
                    <<present[i], StringifyMember(response, present[i])>>]]

\* JSON.parse of an object text whose members are all strings
ParseFlatObject(text) ==
    [k \in { text.obj[i][1] : i \in 1..Len(text.obj) } |->
        LET i == CHOOSE i \in 1..Len(text.obj) : text.obj[i][1] = k
        IN  text.obj[i][2].str]

\* JSON.parse of the text of a case record or an error descriptor, as the
\* log's reader applies it to an entry's response
JSONparse(text) ==
    [k \in { text.obj[i][1] : i \in 1..Len(text.obj) } |->
        LET i == CHOOSE i \in 1..Len(text.obj) : text.obj[i][1] = k
            member == text.obj[i][2]
        IN  IF "str" \in DOMAIN member
            THEN member.str
            ELSE [j \in 1..Len(member.arr) |-> ParseFlatObject(member.arr[j])]]

\* new Date().toISOString(): fixed-width text; the digits that vary within
\* the model's horizon are kept
toISOString(t) == <<(t \div 100) % 10, (t \div 10) % 10, t % 10>>

\* text comparison of two timestamps of equal width
TextLess(a, b) ==
    \E i \in 1..Len(a) :
        /\ a[i] < b[i]
        /\ \A j \in 1..(i - 1) : a[j] = b[j]

---------------------------------------------------------------------------
(* Query Log *)

\* variants whose log is the in-memory array, and those that use SQLite
MemoryLogVariants == {"server", "playwright", "mockHtml", "mockHtmlTry"}
SqliteLogVariants == {"sqlite", "category", "search"}
\* variants whose file serves GET /api/log
ListVariants == {"server", "sqlite", "playwright", "mockHtml", "mockHtmlTry"}

\* a parameter bound to a statement: undefined is bound as SQL NULL
sqlNULL == "<NULL>"
BindParam(v) == IF v = undefined THEN sqlNULL ELSE v

LogEntry(timestamp, query, response) ==
    [timestamp |-> timestamp, query |-> query, response |-> response]

\* the INSERT handed to db.run by logQueryToDb
InsertStatement(timestamp, query, response) ==
    [timestamp |-> timestamp,
     case_type |-> BindParam(query.caseType),
     case_number |-> BindParam(query.caseNumber),
     filing_year |-> BindParam(query.filingYear),
     response_data |-> JSONstringify(response)]

\* what new Date() can read: the clock has not moved since it was last
\* read, or it has advanced
ClockReadings == { t \in now..MaxClock : t <= now + 1 }

\* a logQueryToDb that keeps only the latest entry: the array is replaced,
\* the table row overwritten
logQueryToDbKeepingLatest(query, response) ==
    \E t \in ClockReadings :
        LET timestamp == toISOString(t)
        IN  /\ now' = t
            /\ IF variant \in MemoryLogVariants
               THEN /\ queryLog' =
                        <<LogEntry(timestamp, query, JSONstringify(response))>>
                    /\ appended' = Append(appended,
                            LogEntry(timestamp, query, JSONstringify(response)))
                    /\ lastListed' = <<>>
                    /\ listValid' = FALSE
                    /\ UNCHANGED dbQueue
               ELSE /\ dbQueue' =
                        <<InsertStatement(timestamp, query, response)>>
                    /\ UNCHANGED <<queryLog, appended, lastListed, listValid>>

\* logQueryToDb(query, response): the in-memory variants unshift the entry;
\* the SQLite variants hand an INSERT to db.run, which executes it later
logQueryToDb(query, response) ==
    \E t \in ClockReadings :
        LET timestamp == toISOString(t)
        IN  /\ now' = t
            /\ IF variant \in MemoryLogVariants
               THEN /\ queryLog' =
                        <<LogEntry(timestamp, query, JSONstringify(response))>>
                            \o queryLog
                    /\ appended' = Append(appended,
                            LogEntry(timestamp, query, JSONstringify(response)))
                    /\ lastListed' = <<>>
                    /\ listValid' = FALSE
                    /\ UNCHANGED dbQueue
               ELSE /\ dbQueue' = Append(dbQueue,
                            InsertStatement(timestamp, query, response))
                    /\ UNCHANGED <<queryLog, appended, lastListed, listValid>>

\* the row a SELECT * returns, as GET /api/log maps it
RowToLog(row) ==
    LogEntry(row.timestamp,
             [caseType |-> row.case_type, caseNumber |-> row.case_number,
              filingYear |-> row.filing_year],
             row.response_data)

\* rows[j] is listed before rows[i] by ORDER BY timestamp DESC; rows of equal
\* timestamp come in the order the build's sorter leaves them
ListedBefore(j, i) ==
    \/ TextLess(rows[i].timestamp, rows[j].timestamp)
    \/ /\ rows[i].timestamp = rows[j].timestamp
       /\ IF tieOrder = "rowidAsc" THEN j < i ELSE j > i

\* SELECT * FROM queries_log ORDER BY timestamp DESC
SelectAll ==
    [k \in 1..Len(rows) |->
        LET i == CHOOSE i \in 1..Len(rows) :
                    Cardinality({j \in 1..Len(rows) : ListedBefore(j, i)}) = k - 1
        IN  rows[i]]

\* the array GET /api/log answers with
ListLog ==
    IF variant \in MemoryLogVariants
    THEN queryLog
    ELSE [k \in 1..Len(rows) |-> RowToLog(SelectAll[k])]

\* the database file holds no table of that name
NoTable == {}

\* variants that open ./queries.db and use its table queries_log
QueriesDbVariants == {"sqlite", "category", "captcha"}

\* the columns queries_log is created with by part_001, and by part_003
Columns001 ==
    {"id", "timestamp", "case_type", "case_number", "filing_year",
     "response_data"}
Columns003 == Columns001 \cup {"captcha_attempt"}

\* the columns the variant's CREATE TABLE statement names
CreateTable(v) ==
    IF v = "sqlite" THEN Columns001
    ELSE IF v \in {"category", "captcha"} THEN Columns003
    ELSE IF v = "search"
    THEN {"id", "case_type", "case_number", "filing_year", "raw_response",
          "timestamp"}
    ELSE NoTable

\* CREATE TABLE IF NOT EXISTS at server start: a table already in the file
\* is left as it is
CreateTableIfNotExists(v, existing) ==
    IF existing = NoTable THEN CreateTable(v) ELSE existing

\* what the database file can hold when the server starts: nothing, or the
\* table an earlier run of a server using that file created
ExistingTables(v) ==
    IF v \in QueriesDbVariants THEN {NoTable, Columns001, Columns003}
    ELSE {NoTable}

\* the columns the variant's INSERT statement names
InsertColumns(v) ==
    CreateTable(v) \ (IF v = "search" THEN {"id", "timestamp"} ELSE {"id"})

\* SQLite prepares an INSERT only if the table has every column it names
Prepares(v) == InsertColumns(v) \subseteq tableColumns

\* DEFAULT CURRENT_TIMESTAMP: the time of the insert, to the second
CURRENT_TIMESTAMP == toISOString((now \div 1000) * 1000)

\* the row an INSERT stores: the next AUTOINCREMENT id, the column default
\* where the statement gives no timestamp, and NULL in every other column
\* of the table the statement does not name
InsertedRow(statement) ==
    [id |-> Len(rows) + 1] @@ statement @@ [timestamp |-> CURRENT_TIMESTAMP]
        @@ [c \in tableColumns |-> sqlNULL]

\* a db.run whose callback, on a rejected insert, turns the answers already
\* given into errors
DbRunSurfacingFailure ==
    /\ dbQueue # <<>>
    /\ \E ok \in { b \in BOOLEAN : b => Prepares(variant) } :
        IF ok
        THEN /\ rows' = Append(rows, InsertedRow(Head(dbQueue)))
             /\ appended' = Append(appended, RowToLog(InsertedRow(Head(dbQueue))))
             /\ lastListed' = <<>>
             /\ listValid' = FALSE
             /\ UNCHANGED <<storeFailures, req>>
        ELSE /\ storeFailures' = storeFailures + 1
             /\ req' = [r \in Requests |->
                          IF req[r].pc = "done"
                          THEN [req[r] EXCEPT !.res =
                                  [status |-> 500,
                                   body |-> [error |-> "SQLITE_ERROR"]]]
                          ELSE req[r]]
             /\ UNCHANGED <<rows, appended, lastListed, listValid>>
    /\ dbQueue' = Tail(dbQueue)
    /\ UNCHANGED <<variant, tieOrder, tableColumns, captchaVars, now, queryLog, outcomes>>

\* db.run executes the oldest statement handed to it: the store accepts the
\* row, which takes a table with the columns the statement names, or rejects
\* it and the callback logs the error
DbRun ==
    /\ dbQueue # <<>>
    /\ \E ok \in { b \in BOOLEAN : b => Prepares(variant) } :
        IF ok
        THEN /\ rows' = Append(rows, InsertedRow(Head(dbQueue)))
             /\ appended' = Append(appended, RowToLog(InsertedRow(Head(dbQueue))))
             /\ lastListed' = <<>>
             /\ listValid' = FALSE
             /\ UNCHANGED storeFailures
        ELSE /\ storeFailures' = storeFailures + 1
             /\ UNCHANGED <<rows, appended, lastListed, listValid>>
    /\ dbQueue' = Tail(dbQueue)
    /\ UNCHANGED <<variant, tieOrder, tableColumns, captchaVars, now, req, queryLog, outcomes>>

\* s back to front
Reverse(s) == [i \in 1..Len(s) |-> s[Len(s) + 1 - i]]

\* a GET /api/log that reverses the stored log in place before answering
GetLogReversingInPlace ==
    /\ variant \in ListVariants
    /\ queryLog' = Reverse(queryLog)
    /\ rows' = Reverse(rows)
    /\ lastListed' = ListLog
    /\ listValid' = TRUE
    /\ UNCHANGED <<variant, tieOrder, tableColumns, captchaVars, now, req, dbQueue, appended,
                   storeFailures, outcomes>>

\* GET /api/log
GetLog ==
    /\ variant \in ListVariants
    /\ lastListed' = ListLog
    /\ listValid' = TRUE
    /\ UNCHANGED <<variant, tieOrder, tableColumns, captchaVars, now, req, queryLog, rows, dbQueue,
                   appended, storeFailures, outcomes>>

---------------------------------------------------------------------------
(* POST /api/case of the lookup variants *)

NoResponse == [status |-> 0, body |-> undefinedObj]
Response(status, body) == [status |-> status, body |-> body]

\* the case-type field of the court site's form while nothing was put in it
unselected == "<unselected>"

\* a request that has not arrived
IdleRequest ==
    [pc |-> "idle", body |-> NoBody, caseData |-> undefinedObj,
     res |-> NoResponse, calls |-> 0,
     browser |-> "none", captchaText |-> <<>>, page |-> "none",
     ca_type |-> unselected]

\* requests are numbered in the order they arrive
MayArrive(r) ==
    /\ req[r].pc = "idle"
    /\ \A o \in Requests : o < r => req[o].pc # "idle"

\* a success response that carries the seeded criminal record whatever was
\* found
FoundResponseSameRecord(caseData) ==
    Response(200, [success |-> TRUE,
                   data |-> MOCK_DATA(variant)["criminal-123-2023"]])

FoundResponse(caseData) == Response(200, [success |-> TRUE, data |-> caseData])
NotFoundResponse ==
    Response(404, [success |-> FALSE,
                   message |-> "No case found with these details."])
errorResponse == [message |-> "No case found for the given details."]

\* a handler that keeps the query in a variable shared by all requests: what
\* it logs is the body of the request that arrived last
LogAndRespondSharedQuery(r, caseData, calls) ==
    LET last == CHOOSE o \in Requests :
                    /\ req[o].pc # "idle"
                    /\ \A p \in Requests : p > o => req[p].pc = "idle"
    IN  /\ IF TruthyObj(caseData)
           THEN /\ logQueryToDb(req[last].body, caseData)
                /\ req' = [req EXCEPT ![r].pc = "done", ![r].caseData = caseData,
                                      ![r].calls = calls,
                                      ![r].res = FoundResponse(caseData)]
           ELSE /\ logQueryToDb(req[last].body, errorResponse)
                /\ req' = [req EXCEPT ![r].pc = "done", ![r].caseData = caseData,
                                      ![r].calls = calls,
                                      ![r].res = NotFoundResponse]
        /\ outcomes' = [outcomes EXCEPT ![req[r].body] = @ \cup {caseData}]

\* the handler once it holds caseData: log, then answer; `calls` is the
\* number of times the request has invoked the resolver by then
LogAndRespond(r, caseData, calls) ==
    /\ IF TruthyObj(caseData)
       THEN /\ logQueryToDb(req[r].body, caseData)
            /\ req' = [req EXCEPT ![r].pc = "done", ![r].caseData = caseData,
                                  ![r].calls = calls,
                                  ![r].res = FoundResponse(caseData)]
       ELSE /\ logQueryToDb(req[r].body, errorResponse)
            /\ req' = [req EXCEPT ![r].pc = "done", ![r].caseData = caseData,
                                  ![r].calls = calls,
                                  ![r].res = NotFoundResponse]
    /\ outcomes' = [outcomes EXCEPT ![req[r].body] = @ \cup {caseData}]

\* server.js: the handler only arms a 1 s timer
PostCaseServer(r) ==
    /\ variant = "server"
    /\ MayArrive(r)
    /\ \E body \in BodiesFor(variant) :
         req' = [req EXCEPT ![r].pc = "timer", ![r].body = body]
    /\ UNCHANGED <<variant, tieOrder, tableColumns, captchaVars, now, queryLog, rows, dbQueue, appended,
                   storeFailures, outcomes, lastListed, listValid>>

\* server.js: the timer callback looks the key up, logs and answers
TimerFires(r) ==
    /\ variant = "server"
    /\ req[r].pc = "timer"
    /\ \E caseData \in ExactScrape(variant, req[r].body) :
         LogAndRespond(r, caseData, req[r].calls + 1)
    /\ UNCHANGED <<variant, tieOrder, tableColumns, captchaVars, rows, storeFailures>>

\* part_001: the handler calls scrapeCaseData, which looks the key up and
\* then waits 500 ms
PostCaseSqlite(r) ==
    /\ variant = "sqlite"
    /\ MayArrive(r)
    /\ \E body \in BodiesFor(variant) :
         \E caseData \in ExactScrape(variant, body) :
            req' = [req EXCEPT ![r].pc = "scraping", ![r].body = body,
                               ![r].caseData = caseData,
                               ![r].calls = req[r].calls + 1]
    /\ UNCHANGED <<variant, tieOrder, tableColumns, captchaVars, now, queryLog, rows, dbQueue, appended,
                   storeFailures, outcomes, lastListed, listValid>>

\* part_001: scrapeCaseData returns; the handler logs and answers
ScrapeReturns(r) ==
    /\ variant = "sqlite"
    /\ req[r].pc = "scraping"
    /\ LogAndRespond(r, req[r].caseData, req[r].calls)
    /\ UNCHANGED <<variant, tieOrder, tableColumns, captchaVars, rows, storeFailures>>

\* part_003: scrapeCaseData reads MOCK_CASES[caseType] and waits 500 ms
CallCategoryScrape(r) ==
    /\ variant = "category"
    /\ MayArrive(r)
    /\ \E body \in BodiesFor(variant) :
         req' = [req EXCEPT ![r].pc = "scraping", ![r].body = body,
                            ![r].calls = req[r].calls + 1]
    /\ UNCHANGED <<variant, tieOrder, tableColumns, captchaVars, now, queryLog, rows, dbQueue, appended,
                   storeFailures, outcomes, lastListed, listValid>>

\* part_003: scrapeCaseData picks a record at random and returns it to its
\* caller
CategoryScrapeReturns(r) ==
    /\ variant = "category"
    /\ req[r].pc = "scraping"
    /\ \E caseData \in CategoryScrape(req[r].body) :
         /\ req' = [req EXCEPT ![r].pc = "returned", ![r].caseData = caseData]
         /\ outcomes' = [outcomes EXCEPT ![req[r].body] = @ \cup {caseData}]
    /\ UNCHANGED <<variant, tieOrder, tableColumns, captchaVars, now, queryLog, rows, dbQueue, appended,
                   storeFailures, lastListed, listValid>>

---------------------------------------------------------------------------
(* POST /search of part_000: live fetch over HTTP.  The body's fields are  *)
(* named case_type, case_number and filing_year there.                     *)

\* text as the characters it is made of
Blank == " "
RECURSIVE TrimStart(_)
TrimStart(text) ==
    IF text # <<>> /\ Head(text) = Blank THEN TrimStart(Tail(text)) ELSE text
RECURSIVE TrimEnd(_)
TrimEnd(text) ==
    IF text # <<>> /\ text[Len(text)] = Blank
    THEN TrimEnd(SubSeq(text, 1, Len(text) - 1))
    ELSE text
\* String.prototype.trim
trim(text) == TrimEnd(TrimStart(text))

\* what the vision service can answer: no usable candidate, or a text
NoCandidate == <<"<none>">>
CaptchaReplies ==
    { NoCandidate, <<>>, <<Blank>>, <<"7", "K">>, <<Blank, "7", "K", Blank>> }

\* a solveCaptcha that falls back to a guess and does not trim
solveCaptchaGuessing(reply) == IF reply = NoCandidate THEN <<"0">> ELSE reply

\* solveCaptcha: null (here the empty text, as falsy) when the image fetch or
\* the service call throws or no candidate comes back, else the trimmed text
solveCaptcha(reply) == IF reply = NoCandidate THEN <<>> ELSE trim(reply)

\* the documents the court site can answer a submission with: the marker
\* texts the body includes, and whether it holds the result tables
SearchDocuments ==
    { [includes |-> {"Invalid Captcha"}, parties |-> ""],
      [includes |-> {"No Case Found"}, parties |-> ""],
      [includes |-> {"Invalid Captcha", "No Case Found"}, parties |-> ""],
      [includes |-> {}, parties |-> "ABC vs. XYZ"],
      [includes |-> {}, parties |-> ""] }

\* logQuery: the INSERT leaves the timestamp to the column default
logQuery(case_type, case_number, filing_year, raw_response) ==
    dbQueue' = Append(dbQueue,
                  [case_type |-> BindParam(case_type),
                   case_number |-> BindParam(case_number),
                   filing_year |-> BindParam(filing_year),
                   response_data |-> raw_response])

\* !case_type || !case_number || !filing_year
MissingField(body) ==
    ~TruthyStr(body.caseType) \/ ~TruthyStr(body.caseNumber)
        \/ ~TruthyStr(body.filingYear)

Answer(r, status, body) ==
    req' = [req EXCEPT ![r].pc = "done", ![r].res = Response(status, body)]

UnexpectedError ==
    [error |-> "An unexpected error occurred. Please try again later."]

\* the request arrives and is validated
PostSearch(r) ==
    /\ variant = "search"
    /\ MayArrive(r)
    /\ \E body \in BodiesFor(variant) :
         IF MissingField(body)
         THEN req' = [req EXCEPT ![r].pc = "done", ![r].body = body,
                        ![r].res = Response(400,
                            [error |-> "Please provide all required fields."])]
         ELSE req' = [req EXCEPT ![r].pc = "getPage", ![r].body = body]
    /\ UNCHANGED <<variant, tieOrder, tableColumns, captchaVars, now, queryLog, rows, dbQueue, appended,
                   storeFailures, outcomes, lastListed, listValid>>

\* a handler without the catch block: when session.get throws nothing is
\* sent
GetSearchPageUncaught(r) ==
    /\ variant = "search"
    /\ req[r].pc = "getPage"
    /\ \E page \in {"throws", "noCaptchaImage", "captchaImage"} :
         req' = [req EXCEPT
            ![r].calls = req[r].calls + 1,
            ![r].page = page,
            ![r].pc = IF page = "captchaImage" THEN "solving"
                      ELSE IF page = "throws" THEN "thrown" ELSE "done",
            ![r].res =
                IF page = "noCaptchaImage"
                THEN Response(500,
                        [error |-> "Could not find CAPTCHA image on the page."])
                ELSE req[r].res]
    /\ UNCHANGED <<variant, tieOrder, tableColumns, captchaVars, now, queryLog, rows, dbQueue, appended,
                   storeFailures, outcomes, lastListed, listValid>>

\* session.get(SEARCH_URL): it throws, or the page comes with or without
\* the CAPTCHA image
GetSearchPage(r) ==
    /\ variant = "search"
    /\ req[r].pc = "getPage"
    /\ \E page \in {"throws", "noCaptchaImage", "captchaImage"} :
         req' = [req EXCEPT
            ![r].calls = req[r].calls + 1,
            ![r].page = page,
            ![r].pc = IF page = "captchaImage" THEN "solving" ELSE "done",
            ![r].res =
                IF page = "throws" THEN Response(500, UnexpectedError)
                ELSE IF page = "noCaptchaImage"
                THEN Response(500,
                        [error |-> "Could not find CAPTCHA image on the page."])
                ELSE req[r].res]
    /\ UNCHANGED <<variant, tieOrder, tableColumns, captchaVars, now, queryLog, rows, dbQueue, appended,
                   storeFailures, outcomes, lastListed, listValid>>

\* solveCaptcha returns; with a text the handler builds the form data, the
\* body's case_type going into ca_type as it came
CaptchaSolved(r) ==
    /\ variant = "search"
    /\ req[r].pc = "solving"
    /\ \E reply \in CaptchaReplies :
         LET captchaText == solveCaptcha(reply)
             \* what the service gave: nothing, only blanks, or a text
             given == IF reply = NoCandidate THEN "noCandidate"
                      ELSE IF \A i \in 1..Len(reply) : reply[i] = Blank
                      THEN "blankCandidate"
                      ELSE req[r].page
         IN  IF captchaText = <<>>
             THEN req' = [req EXCEPT
                     ![r].pc = "done",
                     ![r].page = given,
                     ![r].res = Response(500,
                        [error |-> "Failed to solve CAPTCHA. Please try again."])]
             ELSE req' = [req EXCEPT ![r].pc = "posting",
                                     ![r].page = given,
                                     ![r].captchaText = captchaText,
                                     ![r].ca_type = req[r].body.caseType]
    /\ UNCHANGED <<variant, tieOrder, tableColumns, captchaVars, now, queryLog, rows, dbQueue, appended,
                   storeFailures, outcomes, lastListed, listValid>>

\* a handler that, when the submission fails for the first time, starts over
\* from the search page
PostFormThrowsRetrying(r) ==
    /\ variant = "search"
    /\ req[r].pc = "posting"
    /\ req' = [req EXCEPT
          ![r].pc = IF req[r].calls = 1 THEN "getPage" ELSE "done",
          ![r].page = "throws",
          ![r].calls = req[r].calls + 1,
          ![r].res = IF req[r].calls = 1 THEN req[r].res
                     ELSE Response(500, UnexpectedError)]
    /\ UNCHANGED <<variant, tieOrder, tableColumns, captchaVars, now, queryLog, rows, dbQueue, appended,
                   storeFailures, outcomes, lastListed, listValid>>

\* session.post throws, or the body it answers is not text and .includes
\* throws
PostFormThrows(r) ==
    /\ variant = "search"
    /\ req[r].pc = "posting"
    /\ req' = [req EXCEPT ![r].pc = "done", ![r].page = "throws",
                          ![r].calls = req[r].calls + 1,
                          ![r].res = Response(500, UnexpectedError)]
    /\ UNCHANGED <<variant, tieOrder, tableColumns, captchaVars, now, queryLog, rows, dbQueue, appended,
                   storeFailures, outcomes, lastListed, listValid>>

\* the marker the handler acts on in a submission response
SearchMarker(document) ==
    IF "Invalid Captcha" \in document.includes THEN "Invalid Captcha"
    ELSE IF "No Case Found" \in document.includes THEN "No Case Found"
    ELSE "none"

\* session.post answers: the handler inspects the body, parses, logs, answers
PostFormAnswers(r) ==
    /\ variant = "search"
    /\ req[r].pc = "posting"
    /\ \E document \in SearchDocuments :
         IF SearchMarker(document) = "Invalid Captcha"
         THEN /\ req' = [req EXCEPT ![r].pc = "done",
                    ![r].page = "Invalid Captcha",
                    ![r].calls = req[r].calls + 1,
                    ![r].res = Response(400,
                        [error |-> "Invalid CAPTCHA submitted. Please try again."])]
              /\ UNCHANGED dbQueue
         ELSE IF SearchMarker(document) = "No Case Found"
         THEN /\ req' = [req EXCEPT ![r].pc = "done",
                    ![r].page = "No Case Found",
                    ![r].calls = req[r].calls + 1,
                    ![r].res = Response(404,
                        [error |-> "No case found with the provided details. Please check and try again."])]
              /\ UNCHANGED dbQueue
         ELSE /\ logQuery(req[r].body.caseType, req[r].body.caseNumber,
                          req[r].body.filingYear, document)
              /\ req' = [req EXCEPT ![r].pc = "done", ![r].page = "Result",
                    ![r].calls = req[r].calls + 1,
                    ![r].res = Response(200,
                        [success |-> TRUE,
                         case_details |-> [parties |-> document.parties]])]
    /\ UNCHANGED <<variant, tieOrder, tableColumns, captchaVars, now, queryLog, rows, appended,
                   storeFailures, outcomes, lastListed, listValid>>

---------------------------------------------------------------------------
(* POST /api/case of index.js: live fetch in a browser *)

\* the site's own code for a case type; '' for a type it does not know
courtCaseTypeValue(caseType) ==
    IF caseType = "criminal" THEN "CRL.A."
    ELSE IF caseType = "civil" THEN "CS(OS)"
    ELSE IF caseType = "writ" THEN "W.P.(C)"
    ELSE ""

\* what the results page shows after the click: a result row, the empty-table
\* message of a search that matched nothing, the site's rejection of the
\* CAPTCHA (the table stays empty); or a step throws (the click or the wait
\* times out, a cell of the row is missing)
SiteAnswers == {"Result", "No Case Found", "Invalid Captcha", "throws"}

\* positions inside scrapeCaseData, between its call and its return
BrowserPcs ==
    {"launching", "navigating", "filling", "captcha", "submitting", "finally",
     "mockLaunch", "mockLoad", "mockExtract"}

\* the steps of scrapeCaseData touch nothing but their own request: the
\* model runs them for the oldest request first
Turn(r) == \A o \in Requests : o < r => req[o].pc \notin BrowserPcs

\* the record scrapeCaseData builds from the first result row
ScrapedResult(query) ==
    [caseType |-> query.caseType, caseNumber |-> query.caseNumber,
     filingYear |-> query.filingYear, parties |-> "ABC vs. XYZ",
     filingDate |-> "01/09/2025", nextHearingDate |-> "01/09/2025",
     orders |-> <<OrderRecord("01/09/2025", "PDF Order", "/orders/1.pdf")>>,
     rawResponse |-> "<html>...results page...</html>"]

\* the handler calls scrapeCaseData
PostCasePlaywright(r) ==
    /\ variant = "playwright"
    /\ MayArrive(r)
    /\ \E body \in BodiesFor(variant) :
         req' = [req EXCEPT ![r].pc = "launching", ![r].body = body,
                            ![r].calls = req[r].calls + 1]
    /\ UNCHANGED <<variant, tieOrder, tableColumns, captchaVars, now, queryLog, rows, dbQueue, appended,
                   storeFailures, outcomes, lastListed, listValid>>

\* a step of scrapeCaseData throws: the catch block returns null
Caught(r) == req' = [req EXCEPT ![r].pc = "finally", ![r].caseData = null]

\* chromium.launch and browser.newPage
PwLaunch(r) ==
    /\ variant = "playwright"
    /\ req[r].pc = "launching"
    /\ Turn(r)
    /\ \E ok \in BOOLEAN :
         IF ok
         THEN req' = [req EXCEPT ![r].pc = "navigating", ![r].browser = "open"]
         ELSE Caught(r)
    /\ UNCHANGED <<variant, tieOrder, tableColumns, captchaVars, now, queryLog, rows, dbQueue, appended,
                   storeFailures, outcomes, lastListed, listValid>>

\* page.goto: the page loads, or the site cannot be reached in time and
\* goto throws
PwNavigate(r) ==
    /\ variant = "playwright"
    /\ req[r].pc = "navigating"
    /\ Turn(r)
    /\ \E ok \in BOOLEAN :
         IF ok THEN req' = [req EXCEPT ![r].pc = "filling"]
         ELSE req' = [req EXCEPT ![r].pc = "finally", ![r].caseData = null,
                                 ![r].page = "throws"]
    /\ UNCHANGED <<variant, tieOrder, tableColumns, captchaVars, now, queryLog, rows, dbQueue, appended,
                   storeFailures, outcomes, lastListed, listValid>>

\* page.fill of the case number, selectOption of the mapped case type (only
\* when the mapping knows it) and of the filing year; fill throws on a value
\* that is not a string, and any of them can time out
PwFillForm(r) ==
    /\ variant = "playwright"
    /\ req[r].pc = "filling"
    /\ Turn(r)
    /\ \E ok \in BOOLEAN :
         IF ok /\ req[r].body.caseNumber # undefined
         THEN req' = [req EXCEPT
                 ![r].pc = "captcha",
                 ![r].ca_type =
                     IF courtCaseTypeValue(req[r].body.caseType) # ""
                     THEN courtCaseTypeValue(req[r].body.caseType)
                     ELSE @]
         ELSE Caught(r)
    /\ UNCHANGED <<variant, tieOrder, tableColumns, captchaVars, now, queryLog, rows, dbQueue, appended,
                   storeFailures, outcomes, lastListed, listValid>>

\* the CAPTCHA code is read from #captcha-code and typed in; without that
\* element the scraper goes on without a CAPTCHA
PwCaptcha(r) ==
    /\ variant = "playwright"
    /\ req[r].pc = "captcha"
    /\ Turn(r)
    /\ \E captchaSolution \in {<<>>, <<"4", "2">>} :
         req' = [req EXCEPT ![r].pc = "submitting",
                            ![r].page = IF captchaSolution = <<>>
                                        THEN "noCaptchaElement" ELSE @,
                            ![r].captchaText = captchaSolution]
    /\ UNCHANGED <<variant, tieOrder, tableColumns, captchaVars, now, queryLog, rows, dbQueue, appended,
                   storeFailures, outcomes, lastListed, listValid>>

\* page.click('#search'), page.waitForFunction and the extraction
PwSubmit(r) ==
    /\ variant = "playwright"
    /\ req[r].pc = "submitting"
    /\ Turn(r)
    /\ \E site \in SiteAnswers :
         req' = [req EXCEPT
            ![r].pc = "finally",
            ![r].page = site,
            ![r].captchaText = <<>>,
            ![r].caseData = IF site = "Result"
                            THEN ScrapedResult(req[r].body)
                            ELSE null]
    /\ UNCHANGED <<variant, tieOrder, tableColumns, captchaVars, now, queryLog, rows, dbQueue, appended,
                   storeFailures, outcomes, lastListed, listValid>>

\* the finally block: await browser.close(), when a browser was launched
PwFinally(r) ==
    /\ variant = "playwright"
    /\ req[r].pc = "finally"
    /\ Turn(r)
    /\ req' = [req EXCEPT
          ![r].pc = "returning",
          ![r].browser = IF req[r].browser = "open" THEN "closed" ELSE @]
    /\ UNCHANGED <<variant, tieOrder, tableColumns, captchaVars, now, queryLog, rows, dbQueue, appended,
                   storeFailures, outcomes, lastListed, listValid>>

\* scrapeCaseData returns; the handler logs and answers
PwReturns(r) ==
    /\ variant = "playwright"
    /\ req[r].pc = "returning"
    /\ LogAndRespond(r, req[r].caseData, req[r].calls)
    /\ UNCHANGED <<variant, tieOrder, tableColumns, captchaVars, rows, storeFailures>>

---------------------------------------------------------------------------
(* POST /api/case of index.js (241-409) and of part_002: a mock page is   *)
(* loaded into a browser and read back                                     *)

MockHtmlVariants == {"mockHtml", "mockHtmlTry"}

\* the page is mockHtml for one query and notFoundHtml for every other
IsMockHtml(query) ==
    /\ query.caseNumber = "123"
    /\ query.caseType = "criminal"
    /\ query.filingYear = "2023"

\* the record read back from mockHtml
MockHtmlResult(query) ==
    [caseType |-> query.caseType, caseNumber |-> query.caseNumber,
     filingYear |-> query.filingYear,
     parties |-> "State of Delhi vs. John Doe",
     filingDate |-> "2023-01-15", nextHearingDate |-> "2025-09-01",
     orders |-> <<OrderRecord("2024-07-28",
                     "Final order on bail application.", RedPdf)>>,
     rawResponse |-> "<html>...<h1>Case Details for " \o query.caseType
         \o " No. " \o query.caseNumber \o "/" \o query.filingYear
         \o "</h1>...</html>"]

\* the handler calls scrapeCaseData
PostCaseMockHtml(r) ==
    /\ variant \in MockHtmlVariants
    /\ MayArrive(r)
    /\ \E body \in BodiesFor(variant) :
         req' = [req EXCEPT ![r].pc = "mockLaunch", ![r].body = body,
                            ![r].calls = req[r].calls + 1]
    /\ UNCHANGED <<variant, tieOrder, tableColumns, captchaVars, now, queryLog, rows, dbQueue, appended,
                   storeFailures, outcomes, lastListed, listValid>>

\* a step outside the try block of index.js (241-409) throws: the exception
\* leaves scrapeCaseData and the handler, with the browser as it is.  In
\* part_002 the step is inside try: catch returns null, finally closes
MockThrows(r) ==
    IF variant = "mockHtmlTry"
    THEN req' = [req EXCEPT
            ![r].pc = "returning", ![r].caseData = null,
            ![r].browser = IF req[r].browser = "open" THEN "closed" ELSE @]
    ELSE req' = [req EXCEPT ![r].pc = "thrown"]

\* chromium.launch
MockLaunch(r) ==
    /\ variant \in MockHtmlVariants
    /\ req[r].pc = "mockLaunch"
    /\ Turn(r)
    /\ \E ok \in BOOLEAN :
         IF ok
         THEN req' = [req EXCEPT ![r].pc = "mockLoad", ![r].browser = "open"]
         ELSE MockThrows(r)
    /\ UNCHANGED <<variant, tieOrder, tableColumns, captchaVars, now, queryLog, rows, dbQueue, appended,
                   storeFailures, outcomes, lastListed, listValid>>

\* browser.newPage, page.setContent and page.$('#not-found'): on the
\* not-found page the browser is closed and null returned
MockLoad(r) ==
    /\ variant \in MockHtmlVariants
    /\ req[r].pc = "mockLoad"
    /\ Turn(r)
    /\ \E ok \in BOOLEAN :
         IF ~ok THEN MockThrows(r)
         ELSE IF IsMockHtml(req[r].body)
         THEN req' = [req EXCEPT ![r].pc = "mockExtract"]
         ELSE req' = [req EXCEPT ![r].pc = "returning", ![r].caseData = null,
                                 ![r].browser = "closed"]
    /\ UNCHANGED <<variant, tieOrder, tableColumns, captchaVars, now, queryLog, rows, dbQueue, appended,
                   storeFailures, outcomes, lastListed, listValid>>

\* the extraction, inside try in both files: the record, or null when a
\* selector throws; finally closes the browser
MockExtract(r) ==
    /\ variant \in MockHtmlVariants
    /\ req[r].pc = "mockExtract"
    /\ Turn(r)
    /\ \E ok \in BOOLEAN :
         req' = [req EXCEPT
            ![r].pc = "returning",
            ![r].caseData = IF ok THEN MockHtmlResult(req[r].body) ELSE null,
            ![r].browser = "closed"]
    /\ UNCHANGED <<variant, tieOrder, tableColumns, captchaVars, now, queryLog, rows, dbQueue, appended,
                   storeFailures, outcomes, lastListed, listValid>>

\* scrapeCaseData returns; the handler logs and answers
MockReturns(r) ==
    /\ variant \in MockHtmlVariants
    /\ req[r].pc = "returning"
    /\ LogAndRespond(r, req[r].caseData, req[r].calls)
    /\ UNCHANGED <<variant, tieOrder, tableColumns, captchaVars, rows, storeFailures>>

---------------------------------------------------------------------------
(* The CAPTCHA slot of part_003.  The route handlers of that file are not  *)
(* part of the sources beyond the first lines of GET /api/captcha; the     *)
(* slot shares no state with scrapeCaseData and is run on its own.         *)

Users == {"first", "second"}

\* Math.floor(1000 + Math.random() * 9000).toString()
CaptchaCodes ==
    { ToString(1000 + (u * 9000) \div CodeSteps) : u \in 0..(CodeSteps - 1) }

\* a generator that leaves a code that is already active in place
generateNewCaptchaKeepingActive(code, t) ==
    currentCaptcha' = IF currentCaptcha.code # ""
                      THEN currentCaptcha
                      ELSE [code |-> code, timestamp |-> t]

\* generateNewCaptcha, for the code drawn and the time read: the slot is
\* replaced; the new slot's code is what it returns
generateNewCaptcha(code, t) ==
    currentCaptcha' = [code |-> code, timestamp |-> t]

\* server start: once the table exists the first CAPTCHA is generated
InitialCaptcha ==
    /\ variant = "captcha"
    /\ ~lastGenerated.startup
    /\ \E code \in CaptchaCodes : \E t \in ClockReadings :
         /\ generateNewCaptcha(code, t)
         /\ now' = t
         /\ lastGenerated' = [user |-> "server", code |-> code,
                              startup |-> TRUE]
    /\ UNCHANGED <<variant, tieOrder, tableColumns, req, queryLog, rows, dbQueue,
                   appended,
                   storeFailures, outcomes, lastListed, listValid, issued>>

\* GET /api/captcha: a new CAPTCHA is generated for the user who asks
GetCaptcha(u) ==
    /\ variant = "captcha"
    /\ \E code \in CaptchaCodes : \E t \in ClockReadings :
         /\ generateNewCaptcha(code, t)
         /\ now' = t
         /\ lastGenerated' = [user |-> u, code |-> code,
                              startup |-> lastGenerated.startup]
    /\ issued' = [issued EXCEPT ![u] = currentCaptcha'.code]
    /\ UNCHANGED <<variant, tieOrder, tableColumns, req, queryLog, rows, dbQueue,
                   appended,
                   storeFailures, outcomes, lastListed, listValid>>

---------------------------------------------------------------------------
(* The state machine *)

Init ==
    /\ variant \in Variants
    /\ tieOrder \in (IF variant = "sqlite" THEN TieOrders ELSE {"rowidAsc"})
    /\ now = 0
    /\ req = [r \in Requests |-> IdleRequest]
    /\ queryLog = <<>>
    /\ rows = <<>>
    /\ \E existing \in ExistingTables(variant) :
         tableColumns = CreateTableIfNotExists(variant, existing)
    /\ dbQueue = <<>>
    /\ appended = <<>>
    /\ storeFailures = 0
    /\ outcomes = [b \in Bodies |-> {}]
    /\ lastListed = <<>>
    /\ listValid = FALSE
    /\ currentCaptcha = [code |-> "", timestamp |-> 0]
    /\ issued = [u \in Users |-> ""]
    /\ lastGenerated = [user |-> "none", code |-> "", startup |-> FALSE]

Next ==
    \/ \E r \in Requests : PostCaseServer(r)
    \/ \E r \in Requests : TimerFires(r)
    \/ \E r \in Requests : PostCaseSqlite(r)
    \/ \E r \in Requests : ScrapeReturns(r)
    \/ \E r \in Requests : CallCategoryScrape(r)
    \/ \E r \in Requests : CategoryScrapeReturns(r)
    \/ \E r \in Requests : PostSearch(r)
    \/ \E r \in Requests : GetSearchPage(r)
    \/ \E r \in Requests : CaptchaSolved(r)
    \/ \E r \in Requests : PostFormThrows(r)
    \/ \E r \in Requests : PostFormAnswers(r)
    \/ \E r \in Requests : PostCasePlaywright(r)
    \/ \E r \in Requests : PwLaunch(r)
    \/ \E r \in Requests : PwNavigate(r)
    \/ \E r \in Requests : PwFillForm(r)
    \/ \E r \in Requests : PwCaptcha(r)
    \/ \E r \in Requests : PwSubmit(r)
    \/ \E r \in Requests : PwFinally(r)
    \/ \E r \in Requests : PwReturns(r)
    \/ \E r \in Requests : PostCaseMockHtml(r)
    \/ \E r \in Requests : MockLaunch(r)
    \/ \E r \in Requests : MockLoad(r)
    \/ \E r \in Requests : MockExtract(r)
    \/ \E r \in Requests : MockReturns(r)
    \/ DbRun
    \/ GetLog
    \/ InitialCaptcha
    \/ \E u \in Users : GetCaptcha(u)

Spec == Init /\ [][Next]_vars

---------------------------------------------------------------------------
(* The endpoints of part_000 and server.js on their own, with the          *)
(* scheduling Node gives them: a timer that was armed fires, and a call to *)
(* the court site or to the vision service that was started comes back,    *)
(* with an answer or with an error                                         *)

EndpointVariants == {"search", "server"}

EndpointInit == Init /\ variant \in EndpointVariants

EndpointNext ==
    \/ \E r \in Requests : PostCaseServer(r)
    \/ \E r \in Requests : TimerFires(r)
    \/ \E r \in Requests : PostSearch(r)
    \/ \E r \in Requests : GetSearchPage(r)
    \/ \E r \in Requests : CaptchaSolved(r)
    \/ \E r \in Requests : PostFormThrows(r)
    \/ \E r \in Requests : PostFormAnswers(r)
    \/ DbRun
    \/ GetLog

EndpointFairness ==
    \A r \in Requests :
        /\ WF_vars(TimerFires(r))
        /\ WF_vars(GetSearchPage(r))
        /\ WF_vars(CaptchaSolved(r))
        /\ WF_vars(PostFormThrows(r) \/ PostFormAnswers(r))

EndpointSpec == EndpointInit /\ [][EndpointNext]_vars /\ EndpointFairness

---------------------------------------------------------------------------

(* Properties of the pipeline *)

ExactVariants == {"server", "sqlite"}
\* variants whose request handler is part of the sources
HandlerVariants == {"server", "sqlite", "search", "playwright"}
LookupVariants == {"server", "sqlite", "category"}
KnownCategories == {"criminal", "civil", "writ"}

\* entries handed to the log so far: stored, waiting for the store, or
\* rejected by it
Handed == Len(queryLog) + Len(rows) + Len(dbQueue) + storeFailures

\* C1: a request in which case type, case number or filing year is absent or
\* empty is rejected before the resolver is invoked: the resolver has
\* received zero calls for it.
C1_RejectedBeforeResolver ==
    \A r \in Requests :
        (/\ variant \in HandlerVariants
         /\ req[r].pc # "idle"
         /\ MissingField(req[r].body))
        => req[r].calls = 0

\* C2: whenever a request that reached the resolver is answered, whatever the
\* outcome, exactly one entry has been handed to the log for it in the step
\* that answers it.
C2_EveryOutcomeLoggedOnce ==
    [][\A r \in Requests :
          (req[r].pc # "done" /\ req'[r].pc = "done" /\ req'[r].calls > 0)
              => Handed' = Handed + 1]_vars

\* C3: the log is listed newest first: of any two entries the one whose write
\* took effect later is listed earlier, equal timestamps included; the list
\* is the write history back to front.
C3_NewestFirst ==
    variant \in ListVariants => ListLog = Reverse(appended)

\* C4: GET /api/log is a pure read: a step that leaves a listing standing
\* leaves the stored log as it was, and a second listing with no write in
\* between equals the first.
C4_ListIsPureRead ==
    [][listValid' =>
          /\ queryLog' = queryLog
          /\ rows' = rows
          /\ (listValid => lastListed' = lastListed)]_vars

\* a listing of at least two entries stands, and equals what a listing now
\* would return
C4_Witness ==
    /\ listValid
    /\ Len(lastListed) >= 2
    /\ lastListed = ListLog

\* C5: in the category variant, for a request of a known category the
\* resolver returns one of that category's records, carrying that category's
\* caseType label, never a record of another category.
C5_CategoryMatches ==
    \A r \in Requests :
        (/\ variant = "category"
         /\ req[r].pc = "returned"
         /\ req[r].body.caseType \in KnownCategories)
        => /\ TruthyObj(req[r].caseData)
           /\ \E i \in 1..Len(MOCK_CASES[req[r].body.caseType]) :
                 MOCK_CASES[req[r].body.caseType][i] = req[r].caseData
           /\ req[r].caseData.caseType =
                 (IF req[r].body.caseType = "criminal" THEN "Criminal Case"
                  ELSE IF req[r].body.caseType = "civil" THEN "Civil Suit"
                  ELSE "Writ Petition")

\* a writ request was answered with a writ record other than the one whose
\* number it gave
C5_Witness ==
    \E r \in Requests :
        /\ variant = "category"
        /\ req[r].pc = "returned"
        /\ req[r].body.caseType = "writ"
        /\ TruthyObj(req[r].caseData)
        /\ req[r].caseData.caseType = "Writ Petition"
        /\ req[r].caseData.caseNumber # req[r].body.caseNumber

\* C6: in the lookup variants, for a case type that is no known category the
\* resolver returns no record, and POST /api/case answers 404 with
\* success:false and message "No case found with these details.", never 200.
C6_UnknownTypeNotFound ==
    \A r \in Requests :
        (/\ variant \in LookupVariants
         /\ req[r].pc \in {"done", "returned"}
         /\ req[r].body.caseType \notin KnownCategories)
        => /\ ~TruthyObj(req[r].caseData)
           /\ req[r].pc = "done" =>
                 /\ req[r].res.status = 404
                 /\ req[r].res.body =
                       [success |-> FALSE,
                        message |-> "No case found with these details."]

\* part_001 has answered 404 to a request of type "unknown"
C6_Witness ==
    \E r \in Requests :
        /\ variant = "sqlite"
        /\ req[r].pc = "done"
        /\ req[r].body = Body("unknown", "1", "2023")
        /\ req[r].calls = 1
        /\ req[r].res.status = 404

\* C7: in the exact-key variants the resolver is deterministic: all calls
\* made with one (caseType, caseNumber, filingYear), anywhere in a run,
\* returned the same value.
C7_ExactDeterministic ==
    variant \in ExactVariants =>
        \A b \in Bodies : Cardinality(outcomes[b]) <= 1

\* two requests with the same seeded key have both been answered
C7_Witness ==
    \E r1, r2 \in Requests :
        /\ r1 # r2
        /\ variant \in ExactVariants
        /\ req[r1].pc = "done" /\ req[r2].pc = "done"
        /\ req[r1].body = req[r2].body
        /\ TruthyObj(req[r1].caseData)
        /\ outcomes[req[r1].body] = {req[r1].caseData}

\* C8: in the exact-key variants a request whose key is seeded is answered
\* 200 with success:true and the record seeded under that key as data; a
\* request whose key is not seeded (criminal/101/2023 is not, in these
\* tables) is answered NotFound.
C8_SeededFoundElseNotFound ==
    \A r \in Requests :
        (variant \in ExactVariants /\ req[r].pc = "done") =>
            IF req[r].body \in { Body("criminal", "123", "2023"),
                                 Body("civil", "456", "2024") }
            THEN /\ req[r].res.status = 200
                 /\ req[r].res.body.success
                 /\ req[r].res.body.data.caseNumber = req[r].body.caseNumber
                 /\ req[r].res.body.data.filingYear = req[r].body.filingYear
                 /\ req[r].res.body.data.parties =
                       (IF req[r].body.caseType = "criminal"
                        THEN "State of Delhi vs. John Doe"
                        ELSE "Jane Doe vs. ABC Corp")
                 /\ \E k \in DOMAIN MOCK_DATA(variant) :
                       MOCK_DATA(variant)[k] = req[r].res.body.data
            ELSE /\ req[r].res.status = 404
                 /\ req[r].res.body.success = FALSE
                 /\ ~TruthyObj(req[r].caseData)

\* server.js has answered one request with the seeded criminal record and
\* another, for criminal/101/2023, with NotFound
C8_Witness ==
    \E r1, r2 \in Requests :
        /\ variant = "server"
        /\ req[r1].pc = "done" /\ req[r2].pc = "done"
        /\ req[r1].body = Body("criminal", "123", "2023")
        /\ req[r1].res.status = 200
        /\ req[r1].res.body.data.parties = "State of Delhi vs. John Doe"
        /\ req[r2].body = Body("criminal", "101", "2023")
        /\ req[r2].res.status = 404

\* C9: a request with an empty (or absent) caseType, caseNumber or filingYear
\* is answered 400 with error "Please provide all required fields.", not 404
\* and not 200.
C9_EmptyFieldAnswered400 ==
    \A r \in Requests :
        (req[r].pc = "done" /\ MissingField(req[r].body)) =>
            /\ req[r].res.status = 400
            /\ req[r].res.body =
                  [error |-> "Please provide all required fields."]

\* C10: in the live-fetch variants a submission the court site rejects with
\* "Invalid Captcha" is reported as a CAPTCHA failure, distinct from the
\* NotFound of "No Case Found": it is never answered 404.
C10_CaptchaFailureIsNotNotFound ==
    \A r \in Requests :
        (req[r].pc = "done" /\ req[r].page = "Invalid Captcha") =>
            /\ req[r].res.status # 404
            /\ \A o \in Requests :
                  (req[o].pc = "done" /\ req[o].page = "No Case Found")
                      => req[o].res # req[r].res

\* C11: a browser launched for a request is closed on every exit path: once
\* scrapeCaseData has returned or thrown, the browser it launched is not
\* open.
C11_BrowserClosedOnEveryExit ==
    \A r \in Requests :
        req[r].pc \in {"returning", "thrown", "done"} => req[r].browser # "open"

\* C12: a rejected insert never alters a request: the step in which the
\* store rejects a row leaves every request, its status and body included,
\* as it was, and an answered request keeps the answer the resolver's value
\* decides.
C12_StoreFailureNotSurfaced ==
    [][storeFailures' # storeFailures =>
          /\ req' = req
          /\ \A r \in Requests :
                (variant = "sqlite" /\ req'[r].pc = "done") =>
                    req'[r].res = IF TruthyObj(req'[r].caseData)
                                  THEN FoundResponse(req'[r].caseData)
                                  ELSE NotFoundResponse]_vars

\* part_001 answered 200 although the only insert was rejected
C12_Witness ==
    \E r \in Requests :
        /\ variant = "sqlite"
        /\ storeFailures = 1
        /\ rows = <<>>
        /\ dbQueue = <<>>
        /\ req[r].pc = "done"
        /\ req[r].res.status = 200

\* C13: the log is append-only and its entries immutable: every step leaves
\* each entry already in the in-memory array or in the table in place, with
\* the same timestamp, query and outcome; it can only add one in front of
\* the array or one after the last row.
C13_AppendOnly ==
    [][/\ Len(queryLog') >= Len(queryLog)
       /\ \A i \in 1..Len(queryLog) :
             queryLog'[Len(queryLog') - Len(queryLog) + i] = queryLog[i]
       /\ Len(rows') >= Len(rows)
       /\ \A i \in 1..Len(rows) : rows'[i] = rows[i]]_vars

\* server.js holds two entries: the one written first is still there, behind
\* the one written after it
C13_Witness ==
    /\ variant = "server"
    /\ Len(queryLog) = 2
    /\ Len(appended) = 2
    /\ queryLog[2] = appended[1]
    /\ queryLog[1] = appended[2]
    /\ queryLog[1] # queryLog[2]

\* variants whose handler logs the value scrapeCaseData returned
CaseLogVariants == {"server", "sqlite", "playwright", "mockHtml", "mockHtmlTry"}

LiveFetchVariants == {"search", "playwright"}

\* C15: in the live-fetch variants a request during which a call to the
\* court site threw (network error, non-success status, timeout) is
\* answered 500, not 404.
C15_UpstreamFailureAnswered500 ==
    \A r \in Requests :
        (/\ variant \in LiveFetchVariants
         /\ req[r].pc = "done"
         /\ req[r].page = "throws")
        => req[r].res.status = 500

\* what the court site can answer a submitted form with
SubmissionAnswers == {"Result", "No Case Found", "Invalid Captcha"}

\* C16: in the live-fetch variants, when the loaded search page holds no
\* CAPTCHA element the form is not submitted: no step brings the site's
\* answer to a submission for a request whose page had no CAPTCHA.
C16_NoCaptchaNoSubmission ==
    [][\A r \in Requests :
          (/\ variant \in LiveFetchVariants
           /\ req[r].page \in {"noCaptchaImage", "noCaptchaElement"})
          => req'[r].page \notin SubmissionAnswers]_vars

\* C17: in part_000, when the vision service gives no usable candidate
\* (none, the call fails, or only blanks) the request is answered 500
\* "Failed to solve CAPTCHA. Please try again." and nothing is submitted:
\* the only call counted for the request is the one for the search page.
C17_UnsolvedNoSubmission ==
    \A r \in Requests :
        (variant = "search"
            /\ req[r].page \in {"noCandidate", "blankCandidate"})
        => /\ req[r].pc = "done"
           /\ req[r].res = Response(500,
                 [error |-> "Failed to solve CAPTCHA. Please try again."])
           /\ req[r].calls = 1

\* a request was answered so after the service gave no candidate
C17_Witness ==
    \E r \in Requests :
        /\ variant = "search"
        /\ req[r].page = "noCandidate"
        /\ req[r].pc = "done"
        /\ req[r].res.status = 500

\* C18: internal details never reach the caller: no response body carries
\* the raw HTML of the fetched document (rawResponse); it appears only in
\* the logged entry.
C18_NoRawResponseInBody ==
    \A r \in Requests :
        (req[r].pc = "done" /\ "data" \in DOMAIN req[r].res.body)
        => "rawResponse" \notin DOMAIN req[r].res.body.data

\* C19: the numeric CAPTCHA is one slot for the whole process: every
\* generation overwrites it, so the active code is always the one drawn
\* last, it is the code of whoever asked last, and a code handed to another
\* user before is active only if the same digits were drawn again.
C19_OneGlobalSlot ==
    variant = "captcha" =>
        /\ currentCaptcha.code = lastGenerated.code
        /\ \A u \in Users :
              lastGenerated.user = u => issued[u] = currentCaptcha.code
        /\ \A u \in Users :
              (issued[u] # "" /\ issued[u] # lastGenerated.code)
                  => issued[u] # currentCaptcha.code

\* the first user holds a code that the second user's CAPTCHA has replaced
C19_Witness ==
    /\ variant = "captcha"
    /\ issued["first"] # ""
    /\ lastGenerated.user = "second"
    /\ issued["second"] = currentCaptcha.code
    /\ issued["first"] # currentCaptcha.code

\* C20: in the live-fetch variants the steps of a request come in order:
\* the site answers a submission only for a request that has retrieved the
\* search page and holds a CAPTCHA value extracted and solved in that same
\* request.
C20_SubmittedAfterCaptchaSolved ==
    [][\A r \in Requests :
          (/\ variant \in LiveFetchVariants
           /\ req[r].page \notin SubmissionAnswers
           /\ req'[r].page \in SubmissionAnswers)
          => /\ req[r].pc \in {"posting", "submitting"}
             /\ req[r].calls >= 1
             /\ req[r].captchaText # <<>>]_vars

\* the outcome the handler of request r handed to the log
LoggedOutcome(r) ==
    IF TruthyObj(req[r].caseData) THEN req[r].caseData ELSE errorResponse

\* C21: the entry of a request is in the store by the time its response is
\* sent: for every answered request of server.js and part_001, GET /api/log
\* lists an entry with that request's query and outcome, and lists at least
\* as many entries as requests were answered.
C21_EntryStoredBeforeResponse ==
    variant \in ExactVariants =>
        /\ \A r \in Requests :
              req[r].pc = "done" =>
                  \E i \in 1..Len(ListLog) :
                      /\ ListLog[i].query.caseType = BindParam(req[r].body.caseType)
                         \/ ListLog[i].query.caseType = req[r].body.caseType
                      /\ ListLog[i].response = JSONstringify(LoggedOutcome(r))
        /\ Cardinality({r \in Requests : req[r].pc = "done"}) <= Len(ListLog)

\* the position of a step in the handler of a live-fetch request, in program
\* order
StepRank(pc) ==
    IF pc = "idle" THEN 0
    ELSE IF pc \in {"getPage", "launching"} THEN 1
    ELSE IF pc = "navigating" THEN 2
    ELSE IF pc = "filling" THEN 3
    ELSE IF pc \in {"solving", "captcha"} THEN 4
    ELSE IF pc \in {"posting", "submitting"} THEN 5
    ELSE IF pc = "finally" THEN 6
    ELSE IF pc = "returning" THEN 7
    ELSE 8

\* C22: no retry is automatic: in the live-fetch variants every step of a
\* request moves it forward in program order, so the search page is fetched,
\* the CAPTCHA solved and the form submitted at most once each; and once the
\* site answered "Invalid Captcha" or a call to it threw, the request makes
\* no further call and only runs to its answer.
C22_NoAutomaticRetry ==
    [][\A r \in Requests :
          variant \in LiveFetchVariants =>
              /\ req'[r] # req[r] =>
                    StepRank(req'[r].pc) > StepRank(req[r].pc)
              /\ req[r].page \in {"Invalid Captcha", "throws"} =>
                    /\ req'[r].calls = req[r].calls
                    /\ req'[r].page = req[r].page
                    /\ req'[r].pc \in {"finally", "returning", "done"}]_vars

\* part_000 answered a request whose submission the site rejected with
\* "Invalid Captcha": one fetch of the page and one submission were made
C22_Witness ==
    \E r \in Requests :
        /\ variant = "search"
        /\ req[r].pc = "done"
        /\ req[r].page = "Invalid Captcha"
        /\ req[r].calls = 2
        /\ req[r].res.status = 400

\* C23: in the live-fetch variants the case type put into the court site's
\* form is the query's case type translated by the fixed mapping (criminal to
\* CRL.A., civil to CS(OS), writ to W.P.(C)); for a type the mapping does not
\* know the field is left unselected, and the request goes on to submit.
C23_CaseTypeMapped ==
    \A r \in Requests :
        (/\ variant \in LiveFetchVariants
         /\ req[r].pc \in {"captcha", "posting", "submitting"})
        => req[r].ca_type =
              IF courtCaseTypeValue(req[r].body.caseType) = ""
              THEN unselected
              ELSE courtCaseTypeValue(req[r].body.caseType)

\* C24: schema creation at startup is idempotent and leaves the log usable:
\* once a server that logs to ./queries.db has started, over an empty file or
\* over the table an earlier run of any variant created, the table has every
\* column the server's INSERT names, so its log inserts are accepted.
C24_InsertsFitTable ==
    variant \in QueriesDbVariants => Prepares(variant)

\* C25: every stored log entry carries an id, and the id of an entry is
\* strictly greater than the id of every entry appended before it (so no id
\* is used twice), in the table and in the in-memory array alike.
C25_IdsStrictlyIncrease ==
    /\ \A i, j \in 1..Len(rows) : i < j => rows[i].id < rows[j].id
    /\ \A i \in 1..Len(queryLog) : "id" \in DOMAIN queryLog[i]
    /\ \A i, j \in 1..Len(queryLog) : i < j => queryLog[i].id > queryLog[j].id

\* C26: in the category variant a lookup of a known category succeeds
\* whatever case number and filing year come with it: every value the
\* resolver returned for such a query is a record filed under that category
\* in the table, never null.
C26_KnownCategoryAlwaysResolves ==
    variant = "category" =>
        \A b \in Bodies :
            b.caseType \in KnownCategories =>
                \A caseData \in outcomes[b] :
                    /\ TruthyObj(caseData)
                    /\ \E i \in 1..Len(MOCK_CASES[b.caseType]) :
                          MOCK_CASES[b.caseType][i] = caseData

\* a criminal request whose number and year match no criminal record was
\* answered with a criminal record
C26_Witness ==
    \E r \in Requests :
        /\ variant = "category"
        /\ req[r].pc = "returned"
        /\ req[r].body.caseType = "criminal"
        /\ \A i \in 1..Len(MOCK_CASES["criminal"]) :
              MOCK_CASES["criminal"][i].caseNumber # req[r].body.caseNumber
        /\ req[r].caseData \in outcomes[req[r].body]
        /\ TruthyObj(req[r].caseData)
        /\ req[r].caseData.caseType = "Criminal Case"

\* the entries handed to the log that carry query b: in the array, in the
\* table, or waiting for db.run
EntriesOf(b) ==
    Cardinality({i \in 1..Len(queryLog) : queryLog[i].query = b})
    + Cardinality({i \in 1..Len(rows) : RowToLog(rows[i]).query = b})
    + Cardinality({i \in 1..Len(dbQueue) : RowToLog(dbQueue[i]).query = b})

\* entry pairs query b with the outcome the lookup of b gives
OwnOutcome(entry, b) ==
    /\ entry.query = b
    /\ \E caseData \in ExactScrape(variant, b) :
          entry.response =
              JSONstringify(IF TruthyObj(caseData) THEN caseData
                            ELSE errorResponse)

\* C27: requests of server.js and part_001 do not mix under any
\* interleaving: every answered request holds the response computed from its
\* own query; every entry handed to the log pairs the query of a request with
\* the outcome of that same query; and the entries carrying a query are as
\* many as the requests answered for it, less those the store rejected.
C27_RequestsDoNotMix ==
    variant \in ExactVariants =>
        /\ \A r \in Requests :
              req[r].pc = "done" =>
                  \E caseData \in ExactScrape(variant, req[r].body) :
                      req[r].res = IF TruthyObj(caseData)
                                   THEN FoundResponse(caseData)
                                   ELSE NotFoundResponse
        /\ \A i \in 1..Len(queryLog) :
              \E b \in Bodies : OwnOutcome(queryLog[i], b)
        /\ \A i \in 1..Len(rows) :
              \E b \in Bodies : OwnOutcome(RowToLog(rows[i]), b)
        /\ \A i \in 1..Len(dbQueue) :
              \E b \in Bodies : OwnOutcome(RowToLog(dbQueue[i]), b)
        /\ \A b \in Bodies :
              LET answered ==
                      Cardinality({r \in Requests :
                                      req[r].pc = "done" /\ req[r].body = b})
              IN  /\ EntriesOf(b) <= answered
                  /\ EntriesOf(b) + storeFailures >= answered

\* part_001 was answering two requests at once, the first for a seeded key
\* and the second for an unknown one; the second was answered 404 and its
\* entry handed to the log while the first was still being resolved
C27_Witness ==
    /\ variant = "sqlite"
    /\ req[1].pc = "scraping"
    /\ req[1].body = Body("criminal", "123", "2023")
    /\ req[2].pc = "done"
    /\ req[2].body = Body("unknown", "1", "2023")
    /\ req[2].res = NotFoundResponse
    /\ EntriesOf(req[2].body) = 1
    /\ EntriesOf(req[1].body) = 0

\* the entry a step has just handed to the log
HandedEntry ==
    IF variant \in MemoryLogVariants
    THEN queryLog'[1]
    ELSE RowToLog(dbQueue'[Len(dbQueue')])

\* C28: in server.js and part_001 (part_004) the logged outcome agrees with
\* the response: the step that answers a request hands over an entry for
\* that request's query whose response is the serialized record exactly when
\* the answer is 200 with that record as data, and the serialized
\* {message: "No case found for the given details."} exactly when it is 404.
C28_LoggedOutcomeAgreesWithResponse ==
    [][\A r \in Requests :
          (/\ variant \in ExactVariants
           /\ req[r].pc # "done"
           /\ req'[r].pc = "done")
          => /\ Handed' = Handed + 1
             /\ HandedEntry.query.caseType = BindParam(req'[r].body.caseType)
             /\ HandedEntry.query.caseNumber = BindParam(req'[r].body.caseNumber)
             /\ HandedEntry.query.filingYear = BindParam(req'[r].body.filingYear)
             /\ req'[r].res.status \in {200, 404}
             /\ req'[r].res.status = 200 <=>
                   /\ "data" \in DOMAIN req'[r].res.body
                   /\ HandedEntry.response =
                         JSONstringify(req'[r].res.body.data)
             /\ req'[r].res.status = 404 <=>
                   HandedEntry.response = JSONstringify(errorResponse)]_vars

\* server.js answered 200 for civil/456/2024 and 404 for criminal/101/2023,
\* and its log holds the civil record for the one and the error descriptor
\* for the other
C28_Witness ==
    \E r1, r2 \in Requests :
        /\ variant = "server"
        /\ req[r1].pc = "done" /\ req[r2].pc = "done"
        /\ req[r1].body = Body("civil", "456", "2024")
        /\ req[r1].res.status = 200
        /\ req[r2].body = Body("criminal", "101", "2023")
        /\ req[r2].res.status = 404
        /\ \E i, j \in 1..Len(queryLog) :
              /\ queryLog[i].query = req[r1].body
              /\ queryLog[i].response = JSONstringify(req[r1].res.body.data)
              /\ queryLog[j].query = req[r2].body
              /\ queryLog[j].response = JSONstringify(errorResponse)

C30_ScrapeNeverThrows ==
    \A r \in Requests :
        variant \in {"playwright"} \cup MockHtmlVariants =>
            /\ req[r].pc # "thrown"
            /\ (req[r].pc = "done" /\ req[r].page = "throws") =>
                  /\ req[r].res = NotFoundResponse
                  /\ \E i \in 1..Len(queryLog) :
                        /\ queryLog[i].query = req[r].body
                        /\ queryLog[i].response = JSONstringify(errorResponse)

=============================================================================
